---------------------------- MODULE Spec2Model ----------------------------
(***************************************************************************)
(* Model of fighting/app.py: the docstring splitter, the directive and     *)
(* shared parsers, the title helper, the built-in directives, and the      *)
(* Fighting application (route registration and the per-route view).       *)
(*                                                                         *)
(* Text is a sequence of one-character strings, so that the regular        *)
(* expression, textwrap.dedent, str.strip and the slices of the source act *)
(* on characters as they do in Python.                                     *)
(***************************************************************************)
EXTENDS Integers, Sequences, FiniteSets, TLC

VARIABLES
    docLines,     \* SpecDoc: the lines of the comment handed to the parsers
    out,          \* SpecDoc: the last parser call and what it returned
    _directives,  \* Fighting._directives: directive name -> factory
    _resources,   \* Fighting._resources: resource -> list of {title, url}
    _shared,      \* Fighting._shared (with _desc): parse_shared of the module doc
    view_functions, \* Flask's endpoint table: the views self.route registered
    resolved,     \* log of directive factory calls (endpoint, name, meta)
    lastReg,      \* outcome of the last res(resource)(f) call
    lastReq       \* the last request and its response

vars == <<docLines, out, _directives, _resources, _shared, view_functions,
          resolved, lastReg, lastReq>>

----------------------------------------------------------------------------
(* Bounds *)

MaxLines == 3     \* lines of a comment in SpecDoc
MaxRegs == 2      \* res() registrations in Spec

----------------------------------------------------------------------------
(* Characters and Python string primitives *)

\* Python None (a function or module without a docstring)
None == <<"None">>

\* [\t ] of RE_DIRECTIVE / RE_SHARED
BlankChars == {" ", "\t"}

\* the characters str.strip() removes
SpaceChars == {" ", "\t", "\n"}

\* \w: a character of the model's alphabet that is a letter, digit or '_'
IsWord(c) == c \notin {" ", "\t", "\n", "$", "@", ":", "?", ".", "-"}

\* [\t ]* from position i: the position after the blanks
SkipBlank(s, i) ==
    IF \E j \in i..Len(s) : s[j] \notin BlankChars
    THEN CHOOSE j \in i..Len(s) :
             /\ s[j] \notin BlankChars
             /\ \A h \in i..(j - 1) : s[h] \in BlankChars
    ELSE IF i > Len(s) THEN i ELSE Len(s) + 1

\* \w* from position i: the position after the word characters
SkipWord(s, i) ==
    IF \E j \in i..Len(s) : ~IsWord(s[j])
    THEN CHOOSE j \in i..Len(s) :
             /\ ~IsWord(s[j])
             /\ \A h \in i..(j - 1) : IsWord(s[h])
    ELSE IF i > Len(s) THEN i ELSE Len(s) + 1

\* the pattern [\t ]*<sigil>\w+: matches s starting at (1-based) position i
MatchAt(s, i, sigil) ==
    LET j == SkipBlank(s, i)
        k == SkipWord(s, j + 1)
    IN  /\ j <= Len(s)
        /\ s[j] = sigil
        /\ k > j + 1
        /\ k <= Len(s)
        /\ s[k] = ":"

\* a mark: the sigil of the compiled pattern
RE_DIRECTIVE == "$"
RE_SHARED == "@"

\* mark.search(doc): match.start() (0-based) of the leftmost match, -1 if none
search(mark, doc) ==
    IF \E i \in 1..Len(doc) : MatchAt(doc, i, mark)
    THEN (CHOOSE i \in 1..Len(doc) :
              /\ MatchAt(doc, i, mark)
              /\ \A j \in 1..(i - 1) : ~MatchAt(doc, j, mark)) - 1
    ELSE -1

\* str.split(sep): the pieces between the occurrences of sep, the k-th piece
\* running from after the (k-1)-th occurrence to before the k-th
split(s, sep) ==
    LET at == {i \in 1..Len(s) : s[i] = sep}
        n == Cardinality(at)
        pos(k) == IF k = 0 THEN 0
                  ELSE IF k > n THEN Len(s) + 1
                  ELSE CHOOSE p \in at : Cardinality({q \in at : q < p}) = k - 1
    IN  <<>> \o [k \in 1..(n + 1) |-> SubSeq(s, pos(k - 1) + 1, pos(k) - 1)]

\* sep.join(lines)
RECURSIVE join(_, _)
join(lines, sep) ==
    IF lines = <<>> THEN <<>>
    ELSE IF Len(lines) = 1 THEN lines[1]
    ELSE LET h == Len(lines) \div 2
         IN  join(SubSeq(lines, 1, h), sep) \o <<sep>>
                 \o join(SubSeq(lines, h + 1, Len(lines)), sep)

\* str.strip(chars)
lstrip(s, chars) ==
    IF \E j \in 1..Len(s) : s[j] \notin chars
    THEN SubSeq(s, CHOOSE j \in 1..Len(s) :
                       /\ s[j] \notin chars
                       /\ \A h \in 1..(j - 1) : s[h] \in chars, Len(s))
    ELSE <<>>

rstrip(s, chars) ==
    IF \E j \in 1..Len(s) : s[j] \notin chars
    THEN SubSeq(s, 1, CHOOSE j \in 1..Len(s) :
                          /\ s[j] \notin chars
                          /\ \A h \in (j + 1)..Len(s) : s[h] \in chars)
    ELSE <<>>

strip(s, chars) == rstrip(lstrip(s, chars), chars)

startswith(s, p) == Len(p) <= Len(s) /\ SubSeq(s, 1, Len(p)) = p

\* the longest prefix of the indent a that every indent of the set starts
\* with (what the margin loop of dedent comes to)
CommonPrefix(a, indents) ==
    LET n == CHOOSE k \in 0..Len(a) :
                 /\ \A b \in indents : startswith(b, SubSeq(a, 1, k))
                 /\ \/ k = Len(a)
                    \/ \E b \in indents : ~startswith(b, SubSeq(a, 1, k + 1))
    IN  SubSeq(a, 1, n)

\* the margin of dedent: the common leading whitespace of the lines that
\* are not empty, None when there is no such line
Margin(lines) ==
    LET indents == {SubSeq(lines[i], 1, SkipBlank(lines[i], 1) - 1) :
                       i \in {h \in 1..Len(lines) : lines[h] # <<>>}}
    IN  IF indents = {} THEN None
        ELSE CommonPrefix(CHOOSE a \in indents : TRUE, indents)

\* textwrap.dedent(text): whitespace-only lines are emptied, then the common
\* leading whitespace of the other lines is removed from every line
dedent(text) ==
    LET raw == split(text, "\n")
        lines == [i \in 1..Len(raw) |->
                     IF \A j \in 1..Len(raw[i]) : raw[i][j] \in BlankChars
                     THEN <<>> ELSE raw[i]]
        m == Margin(lines)
        margin == IF m = None THEN <<>> ELSE m
    IN  join([i \in 1..Len(lines) |->
                 IF startswith(lines[i], margin)
                 THEN SubSeq(lines[i], Len(margin) + 1, Len(lines[i]))
                 ELSE lines[i]], "\n")

----------------------------------------------------------------------------
(* yaml.load as _parse_doc uses it: a block mapping of top-level keys in   *)
(* declaration order.  A value is the text after the colon together with   *)
(* the deeper-indented lines that follow; it stays uninterpreted here.     *)

\* OrderedDict.__setitem__: a new key goes last, an old key keeps its place
Put(d, k, v) ==
    IF \E i \in 1..Len(d) : d[i][1] = k
    THEN [i \in 1..Len(d) |-> IF d[i][1] = k THEN <<k, v>> ELSE d[i]]
    ELSE Append(d, <<k, v>>)

\* the position of the colon ending a key ("key:" then a blank or the end)
KeyColon(ln) ==
    IF \E j \in 1..Len(ln) :
           ln[j] = ":" /\ (j = Len(ln) \/ ln[j + 1] \in BlankChars)
    THEN CHOOSE j \in 1..Len(ln) :
           /\ ln[j] = ":" /\ (j = Len(ln) \/ ln[j + 1] \in BlankChars)
           /\ \A h \in 1..(j - 1) :
                 ~(ln[h] = ":" /\ ln[h + 1] \in BlankChars)
    ELSE 0

\* the value a key holds in d
Get(d, k) == d[CHOOSE i \in 1..Len(d) : d[i][1] = k][2]

ParserError == [ok |-> FALSE, data |-> <<>>]

\* cur: the key whose value is being read; kind: what that value is so far
\* ("empty", a "scalar" or a nested "mapping")
RECURSIVE YamlLines(_, _, _, _, _)
YamlLines(lines, i, acc, cur, kind) ==
    IF i > Len(lines) THEN [ok |-> TRUE, data |-> acc]
    ELSE LET ln == lines[i] IN
         IF strip(ln, SpaceChars) = <<>>
         THEN YamlLines(lines, i + 1, acc, cur, kind)
         ELSE IF ln[1] \in BlankChars
         THEN \* a deeper line: part of the value of the key above it
              LET more == strip(ln, SpaceChars)
                  k == IF KeyColon(more) = 0 THEN "scalar" ELSE "mapping"
              IN  IF acc = <<>> \/ (kind # "empty" /\ kind # k)
                  THEN ParserError
                  ELSE YamlLines(lines, i + 1,
                           Put(acc, cur,
                               IF kind = "empty" THEN more
                               ELSE Get(acc, cur) \o <<" ">> \o more),
                           cur, k)
         ELSE IF KeyColon(ln) = 0 THEN ParserError
         ELSE LET j == KeyColon(ln)
                  key == SubSeq(ln, 1, j - 1)
                  val == strip(SubSeq(ln, j + 1, Len(ln)), SpaceChars)
              IN  YamlLines(lines, i + 1, Put(acc, key, val), key,
                            IF val = <<>> THEN "empty" ELSE "scalar")

\* yaml.load(yamltext); ok = FALSE is yaml.parser.ParserError
yaml_load(yamltext) ==
    YamlLines(split(yamltext, "\n"), 1, <<>>, <<>>, "empty")

----------------------------------------------------------------------------
(* The doc splitter and the two parsers *)

\* a returned (desc, data), or the exception raised instead
Raise(ex) == [err |-> ex, desc |-> <<>>, data |-> <<>>]
Return(desc, data) == [err |-> "", desc |-> desc, data |-> data]

\* the lines of _parse_doc after the yaml.load call: y is what it gave
SplitDoc(doc, start, y) ==
    IF ~y.ok THEN Raise("SchemaError")
    ELSE Return(strip(dedent(SubSeq(doc, 1, start)), SpaceChars), y.data)

\* the lines of _parse_doc after the search: start is match.start(), or -1
\* when there is no match
SplitAt(doc, start) ==
    IF start < 0 THEN Return(strip(dedent(doc), SpaceChars), <<>>)
    ELSE SplitDoc(doc, start,
                  yaml_load(dedent(SubSeq(doc, start + 1, Len(doc)))))

_parse_doc(doc, mark) ==
    IF doc = None THEN Return(<<>>, <<>>)
    ELSE SplitAt(doc, search(mark, doc))

\* Directives with the sigil left on the keys
Directives_KeepSigil(p) ==
    IF p.err # "" THEN p
    ELSE IF \E i \in 1..Len(p.data) : ~startswith(p.data[i][1], <<"$">>)
    THEN Raise("ValueError")
    ELSE Return(p.desc, p.data)

\* the loop of parse_directive over the (desc, data) that _parse_doc gave
Directives(p) ==
    IF p.err # "" THEN p
    ELSE IF \E i \in 1..Len(p.data) : ~startswith(p.data[i][1], <<"$">>)
    THEN Raise("ValueError")
    ELSE Return(p.desc, [i \in 1..Len(p.data) |->
                            <<Tail(p.data[i][1]), p.data[i][2]>>])

parse_directive(doc) == Directives(_parse_doc(doc, RE_DIRECTIVE))

\* the loop of parse_shared over the (desc, data) that _parse_doc gave
Shared(p) ==
    IF p.err # "" THEN p
    ELSE IF \E i \in 1..Len(p.data) : ~startswith(p.data[i][1], <<"@">>)
    THEN Raise("ValueError")
    ELSE Return(p.desc, [i \in 1..Len(p.data) |->
                            <<Tail(p.data[i][1]), p.data[i][2]>>])

parse_shared(doc) == Shared(_parse_doc(doc, RE_SHARED))

\* the length a title is cut to
TitleMax == 20

get_title(doc) ==
    IF doc = None \/ doc = <<>> THEN <<>>
    ELSE LET lines == split(strip(doc, {"\n"}), "\n")
             title == strip(lines[1], SpaceChars)
         IN  IF Len(title) > TitleMax
             THEN SubSeq(title, 1, TitleMax) \o <<".", ".", ".">>
             ELSE title

Rep(c, n) == <<>> \o [i \in 1..n |-> c]

----------------------------------------------------------------------------
(* Mappings (dict, OrderedDict, request.form): sequences of <<key, value>> *)

Keys(d) == [i \in 1..Len(d) |-> d[i][1]]
Has(d, k) == \E i \in 1..Len(d) : d[i][1] = k

----------------------------------------------------------------------------
(* validr as the directives use it.  A schema is the text of a directive's *)
(* meta: "n" stands for the schema `name?str`, "s" for `message?str`, and  *)
(* "@m" refers to the shared schema m.                                     *)

\* SchemaParser(shared=...).parse(meta): the compiled schema, or SchemaError
parse(meta, shared) ==
    IF meta = <<"n">> THEN [err |-> "", fields |-> <<"name">>]
    ELSE IF meta = <<"s">> THEN [err |-> "", fields |-> <<"message">>]
    ELSE IF /\ Len(meta) > 1
            /\ meta[1] = "@"
            /\ Has(shared, Tail(meta))
            /\ Get(shared, Tail(meta)) = <<"s">>
    THEN [err |-> "", fields |-> <<"message">>]
    ELSE [err |-> "SchemaError", fields |-> <<>>]

\* validate(value): the declared fields of value, or Invalid with a message
validate(schema, value) ==
    IF \E i \in 1..Len(schema.fields) : ~Has(value, schema.fields[i])
    THEN [invalid |-> "required", data |-> <<>>]
    ELSE [invalid |-> "",
          data |-> [i \in 1..Len(schema.fields) |->
                       <<schema.fields[i], Get(value, schema.fields[i])>>]]

----------------------------------------------------------------------------
(* Requests *)

\* accept_json(): the best Accept match is JSON, or the query holds `json`
accept_json(request) ==
    request.accept = "application/json" \/ request.jsonArg

\* what a called view comes back with: a returned value, abort(message)
\* (HTTP 400 with the message as body) or another exception (HTTP 500)
Returned(val, trace) ==
    [kind |-> "return", native |-> FALSE, val |-> val, trace |-> trace]
ReturnedResponse(trace) ==
    [kind |-> "return", native |-> TRUE, val |-> <<>>, trace |-> trace]
Aborted(message, trace) ==
    [kind |-> "abort", native |-> FALSE, val |-> message, trace |-> trace]
Raised(ex, trace) ==
    [kind |-> "raise", native |-> FALSE, val |-> ex, trace |-> trace]

Event(ev, args) == [ev |-> ev, args |-> args]

\* get_request_data without the check that the JSON payload is a mapping
get_request_data_AnyJson(request) ==
    IF request.mimetype = "application/json" /\ request.body.json = "invalid"
    THEN [abort |-> "Invalid JSON content", data |-> <<>>]
    ELSE [abort |-> "", data |-> request.body.data]

\* get_request_data(): the payload mapping, or the message it aborts with
get_request_data(request) ==
    IF request.mimetype = "application/json"
    THEN IF request.body.json = "invalid"
         THEN [abort |-> "Invalid JSON content", data |-> <<>>]
         ELSE IF request.body.json # "object"
         THEN [abort |-> "JSON content must be object", data |-> <<>>]
         ELSE [abort |-> "", data |-> request.body.data]
    ELSE [abort |-> "", data |-> request.body.data]

----------------------------------------------------------------------------
(* Handlers and directives.  A view under construction is the handler and  *)
(* the layers wrapped around it so far, innermost first.                   *)

\* the decorated function called with keyword arguments kwargs
CallHandler(h, kwargs) ==
    IF Keys(kwargs) # h.params
    THEN Raised("TypeError", <<>>)
    ELSE IF h.returns = "response"
    THEN ReturnedResponse(<<Event("handler", kwargs)>>)
    ELSE IF h.params = <<>>
    THEN Returned(<<<<"message", "hello">>>>, <<Event("handler", kwargs)>>)
    ELSE Returned(<<<<"message", Get(kwargs, "name")>>>>,
                  <<Event("handler", kwargs)>>)

\* Wrap with the new view laid inside the views already there
Wrap_Inside(f, factory, schema) ==
    [err |-> "",
     f |-> [handler |-> f.handler,
            layers |-> <<[factory |-> factory, schema |-> schema]>> \o f.layers]]

\* the view closure a factory returns, laid around f
Wrap(f, factory, schema) ==
    [err |-> "",
     f |-> [handler |-> f.handler,
            layers |-> Append(f.layers, [factory |-> factory, schema |-> schema])]]

NotWrapped(ex, f) == [err |-> ex, f |-> f]

input_directive(f, meta, api) ==
    LET v == parse(meta, api)
    IN  IF v.err # "" THEN NotWrapped(v.err, f)
        ELSE Wrap(f, "input_directive", v)

output_directive(f, meta, api) ==
    LET v == parse(meta, api)
    IN  IF v.err # "" THEN NotWrapped(v.err, f)
        ELSE Wrap(f, "output_directive", v)

\* a caller-supplied directive (directives={'mark': ...}): its view calls f
\* with the arguments it was given
mark_directive(f, meta, api) == Wrap(f, "mark_directive", meta)

\* directive names
N_input == <<"i", "n", "p", "u", "t">>
N_output == <<"o", "u", "t", "p", "u", "t">>
N_mark == <<"m", "a", "r", "k">>

\* f(**kwargs) for a view f; f() is the call with no keyword argument
RECURSIVE Call(_, _, _)

\* InputValidated going on to f(**data) whatever validate said
InputValidated_Unchecked(schema, f, data, request) ==
    LET r == Call(f, data, request)
    IN  [r EXCEPT !.trace = <<Event("input.enter", <<>>),
                              Event("input.validate", data)>> \o r.trace]

\* input_directive's view once the payload is there: validate, then f(**data)
InputValidated(schema, f, data, request) ==
    LET v == validate(schema, data)
        tr == <<Event("input.enter", <<>>), Event("input.validate", data)>>
    IN  IF v.invalid # "" THEN Aborted(v.invalid, tr)
        ELSE LET r == Call(f, v.data, request)
             IN  [r EXCEPT !.trace = tr \o r.trace]

\* the view() of input_directive; it takes no argument
InputView(schema, f, kwargs, request) ==
    IF kwargs # <<>> THEN Raised("TypeError", <<>>)
    ELSE LET got == get_request_data(request)
         IN  IF got.abort # ""
             THEN Aborted(got.abort, <<Event("input.enter", <<>>)>>)
             ELSE InputValidated(schema, f, got.data, request)

\* output_directive's view once f has returned r
OutputValidated(schema, r) ==
    LET enter == <<Event("output.enter", <<>>)>>
    IN  IF r.kind # "return"
        THEN [r EXCEPT !.trace = enter \o r.trace]
        ELSE IF r.native
        THEN Raised("Invalid",
                    enter \o r.trace \o <<Event("output.validate", <<>>)>>)
        ELSE LET v == validate(schema, r.val)
                 tr == enter \o r.trace \o <<Event("output.validate", r.val)>>
             IN  IF v.invalid # "" THEN Raised("Invalid", tr)
                 ELSE Returned(v.data, tr)

\* the view(*args, **kwargs) of output_directive
OutputView(schema, f, kwargs, request) ==
    OutputValidated(schema, Call(f, kwargs, request))

\* the view of the caller-supplied directive
MarkView(f, kwargs, request) ==
    LET r == Call(f, kwargs, request)
    IN  [r EXCEPT !.trace = <<Event("mark.enter", <<>>)>> \o r.trace]

\* the view a layer stands for, called around the layers below it
LayerView(top, f, kwargs, request) ==
    IF top.factory = "input_directive"
    THEN InputView(top.schema, f, kwargs, request)
    ELSE IF top.factory = "output_directive"
    THEN OutputView(top.schema, f, kwargs, request)
    ELSE MarkView(f, kwargs, request)

Call(f, kwargs, request) ==
    IF f.layers = <<>>
    THEN CallHandler(f.handler, kwargs)
    ELSE LayerView(f.layers[Len(f.layers)],
                   [handler |-> f.handler,
                    layers |-> SubSeq(f.layers, 1, Len(f.layers) - 1)],
                   kwargs, request)

----------------------------------------------------------------------------
(* Fighting *)

\* ApplyDirective putting the lookup of an unregistered name off
ApplyDirective_Lazy(registry, name, f, meta, api) ==
    IF name \notin DOMAIN registry THEN Wrap(f, "unresolved", meta)
    ELSE IF registry[name] = "input_directive" THEN input_directive(f, meta, api)
    ELSE IF registry[name] = "output_directive" THEN output_directive(f, meta, api)
    ELSE mark_directive(f, meta, api)

\* self._directives[directive](f, meta, self)
ApplyDirective(registry, name, f, meta, api) ==
    IF name \notin DOMAIN registry THEN NotWrapped("KeyError", f)
    ELSE IF registry[name] = "input_directive" THEN input_directive(f, meta, api)
    ELSE IF registry[name] = "output_directive" THEN output_directive(f, meta, api)
    ELSE mark_directive(f, meta, api)

\* the loop of make_view from directive i on; log: the factory calls made
RECURSIVE ApplyAll(_, _, _, _, _, _)
ApplyAll(registry, directives, i, f, api, log) ==
    IF i > Len(directives) THEN [err |-> "", f |-> f, log |-> log]
    ELSE LET name == directives[i][1]
             meta == directives[i][2]
             w == ApplyDirective(registry, name, f, meta, api)
             called == IF name \in DOMAIN registry
                       THEN Append(log, <<name, meta>>) ELSE log
         IN  IF w.err # "" THEN [err |-> w.err, f |-> f, log |-> called]
             ELSE ApplyAll(registry, directives, i + 1, w.f, api, called)

\* what make_view closes the view over, w being what its loop came to
Closure(p, w) ==
    [err |-> w.err, desc |-> p.desc, directives |-> p.data,
     f |-> w.f, log |-> w.log]

\* make_view after parse_directive: p is (desc, directives)
WrapAll(registry, shared, origin, p) ==
    IF p.err # ""
    THEN [err |-> p.err, desc |-> <<>>, directives |-> <<>>,
          f |-> [handler |-> origin, layers |-> <<>>], log |-> <<>>]
    ELSE Closure(p, ApplyAll(registry, p.data, 1,
                             [handler |-> origin, layers |-> <<>>],
                             shared, <<>>))

\* make_view calling no directive factory when the function is registered
make_view_Lazy(registry, shared, origin) ==
    [WrapAll(registry, shared, origin, parse_directive(origin.doc))
        EXCEPT !.log = <<>>]

\* make_view(f): the view (desc, directives and the wrapped f it closes over)
make_view(registry, shared, origin) ==
    WrapAll(registry, shared, origin, parse_directive(origin.doc))

NoCalls == <<>>

Response(status, mimetype, body, r) ==
    [status |-> status, mimetype |-> mimetype, body |-> body,
     trace |-> r.trace, calls |-> 1]

NoCallResponse(status, mimetype, body) ==
    [status |-> status, mimetype |-> mimetype, body |-> body,
     trace |-> NoCalls, calls |-> 0]

\* view answering every method but POST with the documentation
view_No405(v, request) ==
    IF request.method = "POST"
    THEN LET r == Call(v.f, <<>>, request)
         IN  IF r.kind = "abort"
             THEN Response(400, "application/json", r.val, r)
             ELSE IF r.kind = "raise"
             THEN Response(500, "text/html", r.val, r)
             ELSE IF r.native
             THEN Response(201, "native", <<>>, r)
             ELSE Response(200, "application/json", r.val, r)
    ELSE NoCallResponse(200, "text/html",
                        [desc |-> v.desc, directives |-> v.directives])

\* the view() closure of make_view, with Flask turning abort(message) into
\* its 400 response and any other exception into a 500
view(v, request) ==
    IF request.method = "POST"
    THEN LET r == Call(v.f, <<>>, request)
         IN  IF r.kind = "abort"
             THEN Response(400, "application/json", r.val, r)
             ELSE IF r.kind = "raise"
             THEN Response(500, "text/html", r.val, r)
             ELSE IF r.native
             THEN Response(201, "native", <<>>, r)
             ELSE Response(200, "application/json", r.val, r)
    ELSE IF request.method = "GET"
    THEN IF accept_json(request)
         THEN NoCallResponse(200, "application/json",
                             [desc |-> v.desc, directives |-> v.directives])
         ELSE NoCallResponse(200, "text/html",
                             [desc |-> v.desc, directives |-> v.directives])
    ELSE NoCallResponse(405, "text/html", <<>>)

endpointOf(resource, action) == <<resource, ".", action>>
urlOf(resource, action) == <<"/", resource, "/", action>>

\* Flask's dispatch to a url registered with methods=['GET', 'POST'] (HEAD
\* comes with GET); 404 for a url no route serves
dispatch(views, request) ==
    IF ~\E v \in views : v.url = request.url
    THEN NoCallResponse(404, "text/html", <<>>)
    ELSE IF request.method \notin {"GET", "POST", "HEAD"}
    THEN NoCallResponse(405, "text/html", <<>>)
    ELSE view(CHOOSE v \in views : v.url = request.url, request)

----------------------------------------------------------------------------
(* The application under test: the module comment, the decorated functions *)
(* and the requests sent to it                                             *)

Text(lines) == join(lines, "\n")
Indented(line) == <<" ", " ">> \o line

\* the module comment of the tests: a shared schema m
ModuleDoc ==
    Text(<< <<>>, <<"@", "m", ":">>, Indented(<<"s">>), <<>> >>)

InputN == <<"$">> \o N_input \o <<":", " ", "n">>
OutputM == <<"$">> \o N_output \o <<":", " ", "@", "m">>

Handlers == {
    \* the fixture of the tests: prose, then $input and $output
    [name |-> "action", params |-> <<"name">>, returns |-> "value",
     doc |-> Text(<< <<>>, Indented(<<"T">>), <<>>,
                     Indented(<<"$">> \o N_input \o <<":">>),
                     Indented(Indented(<<"n">>)),
                     Indented(OutputM), <<" ", " ">> >>)],
    \* the same with $output declared first
    [name |-> "swapped", params |-> <<"name">>, returns |-> "value",
     doc |-> Text(<< <<>>, Indented(<<"T">>), <<>>,
                     Indented(OutputM), Indented(InputN), <<" ", " ">> >>)],
    \* test_invalid: a block that is not valid YAML
    [name |-> "invalid1", params |-> <<"name">>, returns |-> "value",
     doc |-> Text(<< <<>>, Indented(<<"T">>), <<>>,
                     Indented(<<"$">> \o N_input \o <<":">>),
                     Indented(<<"b", "a", "d">>), <<" ", " ">> >>)],
    \* test_invalid: a directive nobody registered
    [name |-> "invalid2", params |-> <<"name">>, returns |-> "value",
     doc |-> Text(<< <<>>, Indented(<<"T">>), <<>>,
                     Indented(<<"$", "u", "n", "k", "n", "o", "w", "n", ":">>),
                     Indented(Indented(<<"n">>)), <<" ", " ">> >>)],
    \* a comment that is a directive block only
    [name |-> "bare", params |-> <<"name">>, returns |-> "value",
     doc |-> InputN],
    \* a caller-supplied directive under $input
    [name |-> "marked", params |-> <<"name">>, returns |-> "value",
     doc |-> Text(<< <<>>, Indented(<<"T">>), <<>>,
                     Indented(<<"$">> \o N_mark \o <<":">>),
                     Indented(InputN), <<" ", " ">> >>)],
    \* no directive and a first line longer than a title
    [name |-> "plain", params |-> <<>>, returns |-> "value",
     doc |-> Rep("T", TitleMax + 1)],
    \* no comment at all; answers with a response object of its own
    [name |-> "raw", params |-> <<>>, returns |-> "response",
     doc |-> None] }

Resources == {"resource"}

Bodies == {
    [mimetype |-> "application/json", body |-> [json |-> "invalid", data |-> <<>>]],
    [mimetype |-> "application/json", body |-> [json |-> "array", data |-> <<>>]],
    [mimetype |-> "application/json",
     body |-> [json |-> "object", data |-> <<<<"name", "kk">>>>]],
    [mimetype |-> "application/json", body |-> [json |-> "object", data |-> <<>>]],
    [mimetype |-> "application/json",
     body |-> [json |-> "object", data |-> <<<<"name", "kk">>, <<"x", "1">>>>]],
    [mimetype |-> "application/x-www-form-urlencoded",
     body |-> [json |-> "", data |-> <<<<"name", "kk">>>>]] }

NoBody == [mimetype |-> "", body |-> [json |-> "", data |-> <<>>]]

Accepts == {
    [accept |-> "text/html", jsonArg |-> FALSE],
    [accept |-> "application/json", jsonArg |-> FALSE],
    [accept |-> "text/html", jsonArg |-> TRUE] }

Request(url, method, b, a) ==
    [url |-> url, method |-> method, mimetype |-> b.mimetype, body |-> b.body,
     accept |-> a.accept, jsonArg |-> a.jsonArg]

\* the requests sent to a url: POSTs with each body, GETs with each Accept,
\* and two methods that are neither
RequestsTo(url) ==
    {Request(url, "POST", b, CHOOSE a \in Accepts : ~accept_json(a)) : b \in Bodies}
    \cup {Request(url, "GET", NoBody, a) : a \in Accepts}
    \cup {Request(url, m, NoBody, CHOOSE a \in Accepts : ~accept_json(a)) :
             m \in {"HEAD", "PUT"}}

----------------------------------------------------------------------------
(* Spec: the application, from construction on *)

NoCall == [fn |-> "", mark |-> "", res |-> Return(<<>>, <<>>)]

NoReg == [endpoint |-> <<>>, doc |-> None, err |-> "", listed |-> <<>>]
NoReq == [request |-> Request(<<>>, "", NoBody, CHOOSE a \in Accepts : ~accept_json(a)),
          response |-> NoCallResponse(0, "", <<>>)]

\* Fighting.__init__(import_name, directives=custom)
Init ==
    /\ docLines = <<>>
    /\ out = NoCall
    /\ \E custom \in {<<>>, N_mark :> "mark_directive"} :
           _directives = custom @@ (N_input :> "input_directive"
                                    @@ N_output :> "output_directive")
    /\ _resources = <<>>
    /\ _shared = parse_shared(ModuleDoc)
    /\ view_functions = {}
    /\ resolved = <<>>
    /\ lastReg = NoReg
    /\ lastReq = NoReq

\* the titles and urls listed under a resource
Listed(resources, resource) ==
    IF resource \in DOMAIN resources THEN resources[resource] ELSE <<>>

\* the number of res() registrations made so far
RECURSIVE Registrations(_, _)
Registrations(resources, rs) ==
    IF rs = {} THEN 0
    ELSE LET r == CHOOSE x \in rs : TRUE
         IN  Len(Listed(resources, r)) + Registrations(resources, rs \ {r})

\* self._resources.setdefault(resource, []).append({title, url})
AddResource(resources, resource, f) ==
    (resource :> Append(Listed(resources, resource),
                        [title |-> get_title(f.doc),
                         url |-> urlOf(resource, f.name)]))
    @@ resources

\* self.route(url, methods=['GET', 'POST'], endpoint=endpoint)(view): Flask
\* refuses a second view function for an endpoint it already has
route(views, endpoint, url, v) ==
    IF \E w \in views : w.endpoint = endpoint
    THEN [err |-> "AssertionError", views |-> views]
    ELSE [err |-> "",
          views |-> views \cup {[endpoint |-> endpoint, url |-> url,
                                 desc |-> v.desc, directives |-> v.directives,
                                 f |-> v.f]}]

\* the decorater of res from make_view on: v is what make_view gave, or
\* the exception it raised
Decorate(resource, f, v) ==
    /\ resolved' = resolved \o [i \in 1..Len(v.log) |->
                                   <<endpointOf(resource, f.name),
                                     v.log[i][1], v.log[i][2]>>]
    /\ \E r \in {IF v.err # "" THEN [err |-> v.err, views |-> view_functions]
                  ELSE route(view_functions, endpointOf(resource, f.name),
                             urlOf(resource, f.name), v)} :
          /\ view_functions' = r.views
          /\ lastReg' = [endpoint |-> endpointOf(resource, f.name),
                         doc |-> f.doc, err |-> r.err,
                         listed |-> urlOf(resource, f.name)]

\* api.res(resource)(f)
Register(resource, f) ==
    /\ Registrations(_resources, Resources) < MaxRegs
    /\ _resources' = AddResource(_resources, resource, f)
    /\ Decorate(resource, f, make_view(_directives, _shared.data, f))
    /\ UNCHANGED <<docLines, out, _directives, _shared, lastReq>>

\* a request to a listed url
Serve(request) ==
    /\ lastReq' = [request |-> request,
                   response |-> dispatch(view_functions, request)]
    /\ UNCHANGED <<docLines, out, _directives, _resources, _shared,
                   view_functions, resolved, lastReg>>

\* Fighting._doc: GET /
_doc(request) ==
    NoCallResponse(200,
                   IF accept_json(request) THEN "application/json" ELSE "text/html",
                   [desc |-> _shared.desc, resources |-> _resources,
                    shared |-> _shared.data])

Doc(request) ==
    /\ lastReq' = [request |-> request, response |-> _doc(request)]
    /\ UNCHANGED <<docLines, out, _directives, _resources, _shared,
                   view_functions, resolved, lastReg>>

\* the urls the resource table lists
ListedUrls ==
    UNION {{_resources[r][i].url : i \in 1..Len(_resources[r])} :
              r \in DOMAIN _resources}

Next ==
    \/ \E resource \in Resources, f \in Handlers : Register(resource, f)
    \/ \E url \in ListedUrls : \E request \in RequestsTo(url) : Serve(request)
    \/ \E a \in Accepts : Doc(Request(<<"/">>, "GET", NoBody, a))

Spec == Init /\ [][Next]_vars

----------------------------------------------------------------------------
(* Properties of Spec *)

\* the view serving a url
ViewAt(url) == CHOOSE v \in view_functions : v.url = url

\* the last request went to a url that a registered route serves
ServedRequest ==
    /\ lastReq.request.method # ""
    /\ \E v \in view_functions : v.url = lastReq.request.url

Events(trace) == [i \in 1..Len(trace) |-> trace[i].ev]

Declares(v, name) == \E i \in 1..Len(v.directives) : v.directives[i][1] = name

\* the directives each decorated function declares, as its comment reads
Declared(name) ==
    IF name = "action" THEN <<N_input, N_output>>
    ELSE IF name = "swapped" THEN <<N_output, N_input>>
    ELSE IF name = "bare" THEN <<N_input>>
    ELSE IF name = "marked" THEN <<N_mark, N_input>>
    ELSE <<>>

\* what a POST that runs through to the end passes, given the directives
\* in declaration order: the last declared is entered first
RECURSIVE Passes(_, _)
Passes(names, k) ==
    IF k = 0 THEN <<"handler">>
    ELSE IF names[k] = N_input
    THEN <<"input.enter", "input.validate">> \o Passes(names, k - 1)
    ELSE IF names[k] = N_output
    THEN <<"output.enter">> \o Passes(names, k - 1) \o <<"output.validate">>
    ELSE <<"mark.enter">> \o Passes(names, k - 1)

BadParse(p) ==
    \/ p.err # ""
    \/ \E i \in 1..Len(p.data) : p.data[i][1] \notin DOMAIN _directives

BadBlock(doc) == BadParse(parse_directive(doc))

\* C2: res() of a function whose block names an unregistered directive or is
\* malformed fails in that very call, and no route is ever served for it.
C2_FailsAtRegistration ==
    /\ (lastReg.endpoint # <<>> /\ BadBlock(lastReg.doc)) =>
           lastReg.err \in {"SchemaError", "ValueError", "KeyError"}
    /\ \A v \in view_functions :
           /\ ~BadBlock(v.f.handler.doc)
           /\ Len(v.f.layers) = Len(v.directives)
           /\ \A i \in 1..Len(v.f.layers) :
                  v.f.layers[i].factory = _directives[v.directives[i][1]]

\* the registration of a function naming an unregistered directive failed
C2_Witness ==
    /\ lastReg.endpoint = endpointOf("resource", "invalid2")
    /\ lastReg.err = "KeyError"
    /\ view_functions # {}

\* the last request was a POST carrying a payload get_request_data accepts
DecodedPost ==
    /\ ServedRequest
    /\ lastReq.request.method = "POST"
    /\ \/ lastReq.request.mimetype # "application/json"
       \/ lastReq.request.body.json = "object"

\* C3: a POST to a route declaring $input whose payload fails validation is
\* answered 400 with the validation message and the handler is not called;
\* the handler is called, with the validated fields, only when it succeeds.
C3_InputValidation ==
    (DecodedPost /\ Declares(ViewAt(lastReq.request.url), N_input)) =>
        LET data == lastReq.request.body.data
            r == lastReq.response
            handled == {i \in 1..Len(r.trace) : r.trace[i].ev = "handler"}
        IN  IF ~Has(data, "name")
            THEN /\ r.status = 400
                 /\ r.body = "required"
                 /\ handled = {}
            ELSE /\ Cardinality(handled) = 1
                 /\ \A i \in handled :
                        r.trace[i].args = <<<<"name", Get(data, "name")>>>>

\* a payload without the required field was refused with 400
C3_Witness ==
    /\ DecodedPost
    /\ Declares(ViewAt(lastReq.request.url), N_input)
    /\ lastReq.request.body.data = <<>>
    /\ lastReq.response.status = 400
    /\ "input.validate" \in {lastReq.response.trace[i].ev :
                                i \in 1..Len(lastReq.response.trace)}

\* the last request was a POST of JSON that is invalid or not an object
UndecodablePost ==
    /\ ServedRequest
    /\ lastReq.request.method = "POST"
    /\ lastReq.request.mimetype = "application/json"
    /\ lastReq.request.body.json \in {"invalid", "array"}

\* C4 as claimed: every POST of invalid or non-object JSON is answered 400
\* before the view of any directive, or the handler, is reached.
C4_AlwaysRefusedFirst ==
    UndecodablePost =>
        /\ lastReq.response.status = 400
        /\ \A i \in 1..Len(lastReq.response.trace) :
               lastReq.response.trace[i].ev
                   \notin {"output.enter", "mark.enter", "handler"}

\* $output is declared after $input, and so is wrapped around it
OutputAroundInput(v) ==
    \E i, j \in 1..Len(v.directives) :
        /\ i < j
        /\ v.directives[i][1] = N_input
        /\ v.directives[j][1] = N_output

\* C4 amended: a POST of invalid or non-object JSON to a route declaring
\* $input is answered 400 with the decoding message by the view of $input,
\* before validation and before the handler; only the view of an $output
\* declared after $input has been entered by then.
C4_RefusedByInput ==
    (UndecodablePost /\ Declares(ViewAt(lastReq.request.url), N_input)) =>
        /\ lastReq.response.status = 400
        /\ lastReq.response.body =
               IF lastReq.request.body.json = "invalid"
               THEN "Invalid JSON content"
               ELSE "JSON content must be object"
        /\ Events(lastReq.response.trace) =
               IF OutputAroundInput(ViewAt(lastReq.request.url))
               THEN <<"output.enter", "input.enter">>
               ELSE <<"input.enter">>

\* a JSON array was refused by the view of $input inside the view of $output
C4_Witness ==
    /\ UndecodablePost
    /\ lastReq.request.body.json = "array"
    /\ lastReq.response.status = 400
    /\ Events(lastReq.response.trace) = <<"output.enter", "input.enter">>

\* the first line of a description, cut as a title is
TitleOf(desc) ==
    LET line == split(desc, "\n")[1]
    IN  IF Len(line) > TitleMax
        THEN SubSeq(line, 1, TitleMax) \o <<".", ".", ".">>
        ELSE line

\* C7 as claimed: the title listed for a registered handler is the first line
\* of the description parse_directive returns, cut to 20 characters and "..."
\* when longer.
C7_TitleFromDescription ==
    \A r \in DOMAIN _resources : \A i \in 1..Len(_resources[r]) :
        \A v \in view_functions :
            v.url = _resources[r][i].url =>
                _resources[r][i].title = TitleOf(v.desc)

\* C8: the entry point of a route is the handler wrapped by the factory of
\* each declared directive in declaration order, the first declared
\* innermost and the last outermost; a POST that runs through enters the
\* views from the last declared to the first, then the handler.
C8_DeclarationOrder ==
    /\ \A v \in view_functions :
           /\ Keys(v.directives) = Declared(v.f.handler.name)
           /\ Len(v.f.layers) = Len(v.directives)
           /\ \A i \in 1..Len(v.f.layers) :
                  v.f.layers[i].factory = _directives[v.directives[i][1]]
    /\ (ServedRequest /\ lastReq.request.method = "POST"
            /\ lastReq.response.status = 200) =>
           Events(lastReq.response.trace) =
               Passes(Declared(ViewAt(lastReq.request.url).f.handler.name),
                      Len(Declared(ViewAt(lastReq.request.url).f.handler.name)))

\* a POST ran through $output, $input, the handler and output validation
C8_Witness ==
    /\ ServedRequest
    /\ lastReq.request.url = urlOf("resource", "action")
    /\ Events(lastReq.response.trace) =
           <<"output.enter", "input.enter", "input.validate", "handler",
             "output.validate">>

\* the factory calls a registration makes for the view v it adds
Resolutions(v) ==
    [i \in 1..Len(v.directives) |->
        <<v.endpoint, v.directives[i][1], v.directives[i][2]>>]

\* C9: a registration calls the factory of each declared directive exactly
\* once; a request calls none, and leaves the directive registry, the shared
\* schemas and the resource table as they are.
C9_ResolvedAtRegistration ==
    [][/\ lastReq' # lastReq =>
              /\ resolved' = resolved
              /\ _directives' = _directives
              /\ _shared' = _shared
              /\ _resources' = _resources
              /\ view_functions' = view_functions
       /\ view_functions' # view_functions =>
              /\ lastReq' = lastReq
              /\ _directives' = _directives
              /\ _shared' = _shared
              /\ \E v \in view_functions' \ view_functions :
                     resolved' = resolved \o Resolutions(v)]_vars

\* a POST was served by a route whose two directives were resolved before
C9_Witness ==
    /\ ServedRequest
    /\ lastReq.request.method = "POST"
    /\ lastReq.response.status = 200
    /\ Len(resolved) = 2
    /\ Len(ViewAt(lastReq.request.url).directives) = 2

\* C10 as claimed: every url the resource table lists is one a registered
\* route serves, and each registered route is listed once.
C10_ListedIsServed ==
    /\ \A url \in ListedUrls : \E v \in view_functions : v.url = url
    /\ Registrations(_resources, Resources) = Cardinality(view_functions)

----------------------------------------------------------------------------
(* SpecDoc: the parsers applied to comments built from a few line shapes   *)

\* The lines a comment is built from.  mark: the sigil when the line is a
\* marker line (indentation, sigil, word, colon); key: the key the line
\* declares when it is an unindented "key:" line; ind: its indentation.
LineShapes == <<
    [text |-> <<"T">>,                           mark |-> "",  key |-> <<>>,         ind |-> 0],
    [text |-> <<" ", " ", "T">>,                 mark |-> "",  key |-> <<>>,         ind |-> 2],
    [text |-> <<"$", "a", ":">>,                 mark |-> "$", key |-> <<"$", "a">>, ind |-> 0],
    [text |-> <<"$", "b", ":", " ", "v">>,       mark |-> "$", key |-> <<"$", "b">>, ind |-> 0],
    [text |-> <<" ", " ", "$", "a", ":", " ", "v">>, mark |-> "$", key |-> <<>>,     ind |-> 2],
    [text |-> <<"@", "m", ":", " ", "v">>,       mark |-> "@", key |-> <<"@", "m">>, ind |-> 0],
    [text |-> <<"k", ":", " ", "v">>,            mark |-> "",  key |-> <<"k">>,      ind |-> 0],
    [text |-> <<"x", " ", "$", "a", ":", " ", "v">>, mark |-> "", key |-> <<>>,      ind |-> 0],
    [text |-> <<>>,                              mark |-> "",  key |-> <<>>,         ind |-> 0],
    [text |-> <<" ", " ">>,                      mark |-> "",  key |-> <<>>,         ind |-> 0] >>

Docs == UNION {[1..n -> 1..Len(LineShapes)] : n \in 0..MaxLines}

\* the comment text of a sequence of line shapes
TextOf(ls) == join([i \in 1..Len(ls) |-> LineShapes[ls[i]].text], "\n")

\* the application's state while only the parsers are exercised
AppIdle ==
    /\ _directives = <<>>
    /\ _resources = <<>>
    /\ _shared = Return(<<>>, <<>>)
    /\ view_functions = {}
    /\ resolved = <<>>
    /\ lastReg = NoReg
    /\ lastReq = NoReq

appVars == <<_directives, _resources, _shared, view_functions, resolved,
             lastReg, lastReq>>

InitDoc ==
    /\ docLines \in Docs
    /\ out = NoCall
    /\ AppIdle

CallParseDoc ==
    /\ \E mark \in {RE_DIRECTIVE, RE_SHARED} :
           out' = [fn |-> "_parse_doc", mark |-> mark,
                   res |-> _parse_doc(TextOf(docLines), mark)]
    /\ UNCHANGED <<docLines, appVars>>

CallParseDirective ==
    /\ out' = [fn |-> "parse_directive", mark |-> RE_DIRECTIVE,
               res |-> parse_directive(TextOf(docLines))]
    /\ UNCHANGED <<docLines, appVars>>

CallParseShared ==
    /\ out' = [fn |-> "parse_shared", mark |-> RE_SHARED,
               res |-> parse_shared(TextOf(docLines))]
    /\ UNCHANGED <<docLines, appVars>>

CallGetTitle ==
    /\ out' = [fn |-> "get_title", mark |-> "",
               res |-> Return(get_title(TextOf(docLines)), <<>>)]
    /\ UNCHANGED <<docLines, appVars>>

NextDoc ==
    \/ CallParseDoc
    \/ CallParseDirective
    \/ CallParseShared
    \/ CallGetTitle

SpecDoc == InitDoc /\ [][NextDoc]_vars

----------------------------------------------------------------------------
(* Properties of SpecDoc *)

\* the comment handed to the parsers
DocText == TextOf(docLines)

\* the keys of d in the order of their first occurrence
RECURSIVE Distinct(_)
Distinct(ks) ==
    IF ks = <<>> THEN <<>>
    ELSE LET front == Distinct(SubSeq(ks, 1, Len(ks) - 1))
             k == ks[Len(ks)]
         IN  IF \E i \in 1..Len(front) : front[i] = k THEN front
             ELSE Append(front, k)

\* the lines from the first marker line on are unindented "key:" lines,
\* deeper lines and blank lines, and no mark occurs before that line
BlockAt(ls, m, sigil) ==
    /\ m \in 1..Len(ls)
    /\ LineShapes[ls[m]].mark = sigil
    /\ LineShapes[ls[m]].ind = 0
    /\ \A i \in 1..(m - 1) : search(sigil, LineShapes[ls[i]].text) < 0
    /\ \A i \in m..Len(ls) :
           \/ LineShapes[ls[i]].key # <<>>
           \/ LineShapes[ls[i]].ind > 0
           \/ strip(LineShapes[ls[i]].text, SpaceChars) = <<>>

\* the keys the block starting at line m declares, in order
RECURSIVE BlockKeys(_, _)
BlockKeys(ls, m) ==
    IF m > Len(ls) THEN <<>>
    ELSE IF LineShapes[ls[m]].key # <<>>
    THEN <<LineShapes[ls[m]].key>> \o BlockKeys(ls, m + 1)
    ELSE BlockKeys(ls, m + 1)

\* C5: parse_directive and parse_shared return the keys of the block with
\* the sigil stripped, in declaration order, and fail when a key of the
\* block does not start with the sigil.
C5_KeysStripped ==
    out.fn \in {"parse_directive", "parse_shared"} =>
        /\ LET p == _parse_doc(DocText, out.mark)
           IN  p.err = "" =>
                   IF \A i \in 1..Len(p.data) : startswith(p.data[i][1], <<out.mark>>)
                   THEN /\ out.res.err = ""
                        /\ out.res.desc = p.desc
                        /\ Len(out.res.data) = Len(p.data)
                        /\ \A i \in 1..Len(p.data) :
                               /\ <<out.mark>> \o out.res.data[i][1] = p.data[i][1]
                               /\ out.res.data[i][2] = p.data[i][2]
                   ELSE out.res.err = "ValueError"
        /\ \A m \in 1..Len(docLines) :
               BlockAt(docLines, m, out.mark) =>
                   LET ks == Distinct(BlockKeys(docLines, m))
                   IN  IF \A i \in 1..Len(ks) : startswith(ks[i], <<out.mark>>)
                       THEN out.res.err = "" =>
                                Keys(out.res.data) = [i \in 1..Len(ks) |-> Tail(ks[i])]
                       ELSE out.res.err # ""

\* parse_directive returned two directives in the order they were declared
C5_Witness ==
    /\ out.fn = "parse_directive"
    /\ out.res.err = ""
    /\ Keys(out.res.data) = <<<<"b">>, <<"a">>>>

\* C6 as claimed: a comment without a marker line comes back whole (dedented
\* and trimmed) with no data; with a marker line, the description is what
\* precedes the first marker line.
C6_SplitAtMarkerLine ==
    out.fn = "_parse_doc" =>
        IF \A i \in 1..Len(docLines) : LineShapes[docLines[i]].mark # out.mark
        THEN out.res = Return(strip(dedent(DocText), SpaceChars), <<>>)
        ELSE LET m == CHOOSE i \in 1..Len(docLines) :
                          /\ LineShapes[docLines[i]].mark = out.mark
                          /\ \A j \in 1..(i - 1) :
                                 LineShapes[docLines[j]].mark # out.mark
             IN  out.res.err = "" =>
                     out.res.desc =
                         strip(dedent(TextOf(SubSeq(docLines, 1, m - 1))),
                               SpaceChars)

=============================================================================
